---- MODULE Spec2Model ----
(***************************************************************************)
(* Model of the Azure AI document-translation service: the translation     *)
(* client (translator.py), the completion client (openai_client.py), the   *)
(* orchestration pipeline (main.py), the text extractor                    *)
(* (document_processor.py) and the /upload and /analyze handlers (app.py). *)
(*                                                                         *)
(* Python values are modelled as follows.                                  *)
(*   - a text (str) is a record [id, len]: its identity and its length;    *)
(*     None, where a text is expected, is the record None;                 *)
(*   - a configuration value (key, endpoint) is a string, NoneS for None;  *)
(*   - an error message is the sequence of the pieces the code's f-string  *)
(*     concatenates; NoError (the empty sequence) is Python's None;        *)
(*   - a dict is a function from key names to values, with exactly the     *)
(*     keys the code sets;                                                 *)
(*   - a call ends in Ret(v) (it returned v) or Raise(e) (exception e      *)
(*     propagated to the caller).                                          *)
(***************************************************************************)
EXTENDS Integers, Sequences, FiniteSets, TLC

VARIABLES
    env,        \* os.environ: the static configuration, read-only after start
    pc,         \* position of the calling program: "ready", "stage2", "done"
    call,       \* the top-level call in progress or last made (name, arguments)
    wire,       \* the network requests issued since the last top-level call began
    trace,      \* the stage functions invoked by the pipeline run, with outcomes
    result,     \* process_and_translate's `result` dict under construction
    outcome,    \* how the last top-level call ended: Ret(..), Raise(..), NoOutcome
    req,        \* per HTTP request: the handler's position and local variables
    fs,         \* the upload folder: path -> the file there (writer and content)
    served      \* the number of HTTP requests received so far

vars == <<env, pc, call, wire, trace, result, outcome, req, fs, served>>

---------------------------------------------------------------------------
(* Python values *)

NoneS == "<None>"
Truthy(s) == s # NoneS /\ s # ""
\* Python's `a or b` on configuration strings
Or(a, b) == IF Truthy(a) THEN a ELSE b

\* os.getenv(name, default): the default only when the variable is unset
Getenv(e, name, default) == IF e[name] = NoneS THEN default ELSE e[name]

Str(id, n) == [id |-> id, len |-> n]
None == [id |-> "<None>", len |-> 0]
IsNone(v) == v = None

NoError == << >>
EmptyDict == [k \in {} |-> 0]
HasKey(d, k) == k \in DOMAIN d

Ret(v) == [kind |-> "return", value |-> v]
Raise(e) == [kind |-> "raise", exc |-> e]
NoOutcome == [kind |-> "none"]
Returned(o) == o.kind = "return"
Raised(o) == o.kind = "raise"

---------------------------------------------------------------------------
(* translator.py: translate_text *)

\* A JSON body as response.json() sees it.
\*   kind: "invalid" (not JSON), "null", "number", "object", "array"
\*   items: the elements of an array
\*   error: the "error" member of an object
NoErrorMember == [present |-> FALSE, isDict |-> FALSE, hasMessage |-> FALSE, message |-> ""]
ErrorMember(isDict, hasMessage, message) ==
    [present |-> TRUE, isDict |-> isDict, hasMessage |-> hasMessage, message |-> message]
Body(kind, items, nonEmpty, error) ==
    [kind |-> kind, items |-> items, nonEmpty |-> nonEmpty, error |-> error]

\* An element of the translation response array: a dict with optional
\* "translations" (a list of candidates) and "detectedLanguage" members.
Candidate(hasText, text) == [hasText |-> hasText, text |-> text]
Element(hasTranslations, translations, hasDetected, language) ==
    [hasTranslations |-> hasTranslations, translations |-> translations,
     hasDetected |-> hasDetected, language |-> language]

\* What requests.post observes: a transport failure or an HTTP response.
\*   jsonExc: the class response.json() raises on an undecodable body
\*   (requests.exceptions.JSONDecodeError, a RequestException, since requests
\*   2.27; a plain ValueError before).
ReplyT(net, detail, status, body, jsonExc) ==
    [net |-> net, detail |-> detail, status |-> status, body |-> body, jsonExc |-> jsonExc]

\* response.raise_for_status(): HTTPError for 4xx and 5xx
RaisesForStatus(status) == status >= 400 /\ status < 600

\* Python truthiness of a decoded JSON value: `result and len(result) > 0`
BodyTruthy(b) ==
    CASE b.kind = "null"   -> FALSE
      [] b.kind = "array"  -> Len(b.items) > 0
      [] OTHER             -> b.nonEmpty

\* translator.py 124-131: the message of the HTTPError handler
HttpErrorMsg(status, b) ==
    LET base == <<"HTTP Error: ", ToString(status)>>
    IN IF /\ b.kind = "object"
          /\ b.error.present
          /\ b.error.isDict
       THEN base \o <<" - ", IF b.error.hasMessage THEN b.error.message ELSE "">>
       ELSE base

TranslateFailure(err, text, source_lang, target_lang) ==
    [success |-> FALSE, error |-> err, original_text |-> text,
     translated_text |-> None, source_language |-> source_lang,
     target_language |-> target_lang]

\* translator.py 99-122: the 2xx path after response.json() decoded `b`
ParseTranslation(b, text, source_lang, target_lang) ==
    IF ~BodyTruthy(b)
    THEN Ret(TranslateFailure(<<"Empty response from Translator API">>,
                              text, source_lang, target_lang))
    ELSE CASE b.kind = "number" -> Raise("TypeError")     \* len() of a number
           [] b.kind = "object" -> Raise("KeyError")      \* result[0] on a dict
           [] OTHER ->
              LET translation == b.items[1]
              IN  IF ~translation.hasTranslations THEN Raise("KeyError")
                  ELSE IF translation.translations = << >> THEN Raise("IndexError")
                  ELSE IF ~translation.translations[1].hasText THEN Raise("KeyError")
                  ELSE Ret([success |-> TRUE,
                            original_text |-> text,
                            translated_text |-> translation.translations[1].text,
                            source_language |-> source_lang,
                            target_language |-> target_lang,
                            detected_language |->
                                IF translation.hasDetected THEN translation.language
                                ELSE NoneS,
                            error |-> NoError])

\* translator.py 93-150: the try block and its two handlers
AfterPost(reply, text, source_lang, target_lang) ==
    IF reply.net # "response"
    THEN Ret(TranslateFailure(<<"Request failed: ", reply.detail>>,
                              text, source_lang, target_lang))
    ELSE IF RaisesForStatus(reply.status)
    THEN Ret(TranslateFailure(HttpErrorMsg(reply.status, reply.body),
                              text, source_lang, target_lang))
    ELSE IF reply.body.kind = "invalid"
    THEN IF reply.jsonExc = "RequestException"
         THEN Ret(TranslateFailure(<<"Request failed: ", reply.detail>>,
                                   text, source_lang, target_lang))
         ELSE Raise("ValueError")
    ELSE ParseTranslation(reply.body, text, source_lang, target_lang)

\* A retry loop around the POST: the request goes out twice
PostTranslate_Twice(api_key, region, endpoint, text, source_lang, target_lang) ==
    LET post == [api |-> "translate", method |-> "POST", endpoint |-> endpoint,
                 key |-> api_key, region |-> region, version |-> "3.0", timeout |-> 30,
                 from |-> source_lang, to |-> target_lang, text |-> text]
    IN  <<post, post>>

\* What the one requests.post of translator.py 95 puts on the wire
PostTranslate(api_key, region, endpoint, text, source_lang, target_lang) ==
    <<[api |-> "translate", method |-> "POST", endpoint |-> endpoint,
       key |-> api_key, region |-> region, version |-> "3.0", timeout |-> 30,
       from |-> source_lang, to |-> target_lang, text |-> text]>>

\* translate_text: its outcome and the requests it put on the wire
TranslateText(text, source_lang, target_lang, api_key_arg, e, reply) ==
    \* region and endpoint arguments: no caller of this repository passes them
    LET api_key  == Or(api_key_arg, Getenv(e, "AZURE_TRANSLATOR_KEY", NoneS))
        region   == Getenv(e, "AZURE_TRANSLATOR_REGION", "centralindia")
        endpoint == Getenv(e, "AZURE_TRANSLATOR_ENDPOINT",
                           "https://api.cognitive.microsofttranslator.com/")
    IN  IF ~Truthy(api_key)
        THEN [out |-> Ret(TranslateFailure(
                          <<"Missing AZURE_TRANSLATOR_KEY. Please set it in .env file.">>,
                          text, source_lang, target_lang)),
              wire |-> << >>]
        ELSE [out |-> AfterPost(reply, text, source_lang, target_lang),
              wire |-> PostTranslate(api_key, region, endpoint,
                                     text, source_lang, target_lang)]

---------------------------------------------------------------------------
(* openai_client.py: generate_ai_response, summarize_text *)

DefaultSystemMessage ==
    "You are a helpful AI assistant. Provide clear, concise, and accurate responses."
DefaultTemperature == "0.7"
DefaultMaxTokens == 1000

\* A prompt: an instruction prefix followed by a text
Prompt(prefix, text) == [prefix |-> prefix, text |-> text]

\* What client.chat.completions.create does.
\*   kind "ok": a response; hasChoice / hasUsage: whether response.choices[0]
\*     and response.usage exist; content: choices[0].message.content
\*   kind "exception": create() raised; hasMessage: the exception has a
\*     `message` attribute; bodyMessage: its body is a dict with 'message'
\*   kind "client_error": AzureOpenAI(...) itself raised, nothing was sent
ReplyC(kind, hasChoice, content, hasUsage, usage, hasMessage, message, bodyMessage, str) ==
    [kind |-> kind, hasChoice |-> hasChoice, content |-> content,
     hasUsage |-> hasUsage, usage |-> usage, hasMessage |-> hasMessage,
     message |-> message, bodyMessage |-> bodyMessage, str |-> str]

\* usage: None
NoUsage == [none |-> TRUE]

CompletionFailure(err, prompt) ==
    [success |-> FALSE, error |-> err, prompt |-> prompt,
     response |-> None, usage |-> NoUsage]

\* openai_client.py 145-161: the message the handler reports
ExceptionMessage(reply) ==
    IF reply.hasMessage THEN reply.message
    ELSE IF reply.bodyMessage # NoneS THEN reply.bodyMessage
    ELSE reply.str

\* openai_client.py 101-161: the try block and its handler
AfterCreate(reply, prompt, deployment_name) ==
    IF reply.kind # "ok"
    THEN Ret(CompletionFailure(<<"OpenAI API Error: ", ExceptionMessage(reply)>>, prompt))
    ELSE IF ~reply.hasChoice
    THEN Ret(CompletionFailure(<<"OpenAI API Error: ", "list index out of range">>, prompt))
    ELSE IF ~reply.hasUsage
    THEN Ret(CompletionFailure(
             <<"OpenAI API Error: ", "'NoneType' object has no attribute 'prompt_tokens'">>,
             prompt))
    ELSE Ret([success |-> TRUE, prompt |-> prompt, response |-> reply.content,
              usage |-> reply.usage, model |-> deployment_name, error |-> NoError])

\* The chat-completion request of openai_client.py 119-124, as sent
CreateCompletion(api_key, endpoint, deployment_name, system_message, prompt, temperature, max_tokens) ==
    [api |-> "completion", endpoint |-> endpoint, key |-> api_key,
     model |-> deployment_name,
     messages |-> <<[role |-> "system", content |-> Prompt(system_message, Str("", 0))],
                    [role |-> "user", content |-> prompt]>>,
     temperature |-> temperature, max_tokens |-> max_tokens]

\* The endpoint check left out
MissingOpenAiConfig_KeyOnly(api_key, endpoint) ==
    IF ~Truthy(api_key) THEN "AZURE_OPENAI_API_KEY" ELSE NoneS

\* openai_client.py 82-99: the configuration item that is missing, if any
MissingOpenAiConfig(api_key, endpoint) ==
    IF ~Truthy(api_key) THEN "AZURE_OPENAI_API_KEY"
    ELSE IF ~Truthy(endpoint) THEN "AZURE_OPENAI_ENDPOINT"
    ELSE NoneS

\* generate_ai_response: its outcome and the requests it put on the wire
GenerateAiResponse(prompt, system_message, api_key_arg, endpoint_arg, e, reply) ==
    LET api_key  == Or(api_key_arg, Getenv(e, "AZURE_OPENAI_API_KEY", NoneS))
        endpoint == Or(endpoint_arg, Getenv(e, "AZURE_OPENAI_ENDPOINT", NoneS))
        deployment_name == Or(NoneS, Getenv(e, "AZURE_OPENAI_DEPLOYMENT_NAME", "gpt-4o-mini"))
        system == IF Truthy(system_message) THEN system_message
                  ELSE DefaultSystemMessage
        missing == MissingOpenAiConfig(api_key, endpoint)
    IN  IF missing # NoneS
        THEN [out |-> Ret(CompletionFailure(
                          <<"Missing " \o missing \o ". Please set it in .env file.">>,
                          prompt)),
              wire |-> << >>]
        ELSE [out |-> AfterCreate(reply, prompt, deployment_name),
              wire |-> IF reply.kind = "client_error" THEN << >>
                       ELSE <<CreateCompletion(api_key, endpoint, deployment_name,
                                               system, prompt,
                                               DefaultTemperature, DefaultMaxTokens)>>]

\* No fallback: an unknown style gets no instruction line
StylePrompt_NoFallback(style) ==
    CASE style = "concise" ->
         "Provide a brief, concise summary of the following text in 2-3 sentences:"
      [] style = "detailed" ->
         "Provide a comprehensive summary of the following text, covering all key points:"
      [] style = "bullet_points" ->
         "Summarize the following text as bullet points highlighting the key information:"
      [] OTHER -> ""

\* openai_client.py 180-184: style_prompts.get(style, style_prompts['concise'])
StylePrompt(style) ==
    CASE style = "detailed" ->
         "Provide a comprehensive summary of the following text, covering all key points:"
      [] style = "bullet_points" ->
         "Summarize the following text as bullet points highlighting the key information:"
      [] OTHER ->
         "Provide a brief, concise summary of the following text in 2-3 sentences:"

SummarizerSystemMessage ==
    "You are an expert summarizer. Create clear and accurate summaries."

\* summarize_text (called without keyword arguments everywhere in the repository)
SummarizeText(text, style, e, reply) ==
    GenerateAiResponse(Prompt(StylePrompt(style) \o "\n\n", text),
                       SummarizerSystemMessage, NoneS, NoneS, e, reply)

---------------------------------------------------------------------------
(* The inputs and the behaviours of the two providers the model explores *)

Texts == {Str("article", 120), Str("", 0)}
Langs == {"hi", "fr"}
Styles == {"concise", "detailed", "bullet_points", "haiku"}
KeyArgs == {NoneS, "", "arg-key"}
EndpointArgs == {NoneS, "https://arg.openai.azure.com/"}
SystemMessages == {NoneS, "You are a translator."}

Envs ==
    [AZURE_TRANSLATOR_KEY      : {NoneS, "", "env-translator-key"},
     AZURE_TRANSLATOR_REGION   : {NoneS},
     AZURE_TRANSLATOR_ENDPOINT : {NoneS},
     AZURE_OPENAI_API_KEY      : {NoneS, "", "env-openai-key"},
     AZURE_OPENAI_ENDPOINT     : {NoneS, "", "https://env.openai.azure.com/"},
     AZURE_OPENAI_DEPLOYMENT_NAME : {NoneS}]

Translated == Str("translated", 90)
NoBody == Body("invalid", << >>, FALSE, NoErrorMember)
ArrayBody(items) == Body("array", items, Len(items) > 0, NoErrorMember)
OkElement(text) == Element(TRUE, <<Candidate(TRUE, text)>>, FALSE, NoneS)

RepliesT ==
    { ReplyT("timeout", "Read timed out.", 0, NoBody, "RequestException"),
      ReplyT("connection_error", "Connection refused", 0, NoBody, "RequestException"),
      ReplyT("response", "", 401,
             Body("object", << >>, TRUE, ErrorMember(TRUE, TRUE, "Access denied")),
             "RequestException"),
      ReplyT("response", "", 500,
             Body("object", << >>, TRUE, ErrorMember(TRUE, FALSE, "")), "RequestException"),
      ReplyT("response", "", 429,
             Body("object", << >>, TRUE, ErrorMember(FALSE, FALSE, "")), "RequestException"),
      ReplyT("response", "", 404,
             Body("object", << >>, TRUE, NoErrorMember), "RequestException"),
      ReplyT("response", "", 503, NoBody, "RequestException"),
      ReplyT("response", "Expecting value", 200, NoBody, "RequestException"),
      ReplyT("response", "Expecting value", 200, NoBody, "ValueError"),
      ReplyT("response", "Expecting value", 304, NoBody, "RequestException"),
      ReplyT("response", "", 200, Body("null", << >>, FALSE, NoErrorMember),
             "RequestException"),
      ReplyT("response", "", 200, Body("number", << >>, FALSE, NoErrorMember),
             "RequestException"),
      ReplyT("response", "", 200, Body("number", << >>, TRUE, NoErrorMember),
             "RequestException"),
      ReplyT("response", "", 200, Body("object", << >>, FALSE, NoErrorMember),
             "RequestException"),
      ReplyT("response", "", 200, Body("object", << >>, TRUE, NoErrorMember),
             "RequestException"),
      ReplyT("response", "", 200, ArrayBody(<< >>), "RequestException"),
      ReplyT("response", "", 200,
             ArrayBody(<<Element(FALSE, << >>, FALSE, NoneS)>>), "RequestException"),
      ReplyT("response", "", 200,
             ArrayBody(<<Element(TRUE, << >>, FALSE, NoneS)>>), "RequestException"),
      ReplyT("response", "", 200,
             ArrayBody(<<Element(TRUE, <<Candidate(FALSE, None)>>, FALSE, NoneS)>>),
             "RequestException"),
      ReplyT("response", "", 200,
             ArrayBody(<<OkElement(None)>>), "RequestException"),
      ReplyT("response", "", 200,
             ArrayBody(<<OkElement(Translated)>>), "RequestException"),
      ReplyT("response", "", 200,
             ArrayBody(<<Element(TRUE, <<Candidate(TRUE, Translated)>>, TRUE, "en")>>),
             "RequestException"),
      ReplyT("response", "", 200,
             ArrayBody(<<Element(TRUE, <<Candidate(TRUE, Translated),
                                         Candidate(TRUE, Str("second", 9))>>, FALSE, NoneS),
                         OkElement(Str("other", 5))>>),
             "RequestException") }

Usage(p, c) == [prompt_tokens |-> p, completion_tokens |-> c, total_tokens |-> p + c]
Summary == Str("summary", 60)

RepliesC ==
    { ReplyC("ok", TRUE, Summary, TRUE, Usage(40, 20), FALSE, "", NoneS, ""),
      ReplyC("ok", TRUE, Str("long summary", 260), TRUE, Usage(40, 90), FALSE, "", NoneS, ""),
      ReplyC("ok", TRUE, None, TRUE, Usage(40, 0), FALSE, "", NoneS, ""),
      ReplyC("ok", FALSE, None, TRUE, Usage(40, 0), FALSE, "", NoneS, ""),
      ReplyC("ok", TRUE, Summary, FALSE, NoUsage, FALSE, "", NoneS, ""),
      ReplyC("exception", FALSE, None, FALSE, NoUsage, TRUE, "Rate limit reached",
             NoneS, "Error code: 429"),
      ReplyC("exception", FALSE, None, FALSE, NoUsage, FALSE, "",
             "The API deployment does not exist", "DeploymentNotFound"),
      ReplyC("exception", FALSE, None, FALSE, NoUsage, FALSE, "", NoneS,
             "Connection error."),
      ReplyC("client_error", FALSE, None, FALSE, NoUsage, FALSE, "", NoneS,
             "Invalid endpoint") }

---------------------------------------------------------------------------
(* A program calling the clients and the pipeline (main.py) *)

\* d[k] = v in a Python dict
Put(d, k, v) == (k :> v) @@ d

\* A direct call of translate_text, start to end
CallTranslateText ==
    /\ pc = "ready"
    /\ \E text \in Texts, source_lang \in {"en"}, target_lang \in Langs,
          api_key \in KeyArgs, reply \in RepliesT :
          LET r == TranslateText(text, source_lang, target_lang, api_key, env, reply)
          IN  /\ call' = [fn |-> "translate_text", text |-> text,
                          source_lang |-> source_lang, target_lang |-> target_lang,
                          api_key |-> api_key]
              /\ wire' = r.wire
              /\ outcome' = r.out
    /\ pc' = "done"
    /\ trace' = << >>
    /\ result' = EmptyDict
    /\ UNCHANGED <<env, req, fs, served>>

\* A direct call of generate_ai_response, start to end
CallGenerateAiResponse ==
    /\ pc = "ready"
    /\ \E text \in Texts, system_message \in SystemMessages,
          api_key \in KeyArgs, endpoint \in EndpointArgs, reply \in RepliesC :
          LET r == GenerateAiResponse(Prompt("", text), system_message,
                                      api_key, endpoint, env, reply)
          IN  /\ call' = [fn |-> "generate_ai_response", text |-> text,
                          system_message |-> system_message,
                          api_key |-> api_key, endpoint |-> endpoint]
              /\ wire' = r.wire
              /\ outcome' = r.out
    /\ pc' = "done"
    /\ trace' = << >>
    /\ result' = EmptyDict
    /\ UNCHANGED <<env, req, fs, served>>

\* A direct call of summarize_text, start to end
CallSummarizeText ==
    /\ pc = "ready"
    /\ \E text \in Texts, style \in Styles, reply \in RepliesC :
          LET r == SummarizeText(text, style, env, reply)
          IN  /\ call' = [fn |-> "summarize_text", text |-> text, style |-> style,
                          reply |-> reply]
              /\ wire' = r.wire
              /\ outcome' = r.out
    /\ pc' = "done"
    /\ trace' = << >>
    /\ result' = EmptyDict
    /\ UNCHANGED <<env, req, fs, served>>

\* The stage results dropped from a failed envelope
StageFailed_DropStages(res, stage, error) ==
    [success |-> FALSE, error |-> <<stage \o " stage failed: ">> \o error,
     input |-> res.input, target_language |-> res.target_language,
     stages |-> EmptyDict]

\* main.py 55-59 and 73-77: the failed envelope of a stage
StageFailed(res, stage, error) ==
    Put(Put(res, "success", FALSE), "error", <<stage \o " stage failed: ">> \o error)

\* The failure branch left out: the stage's text is used whatever its flag
StageVerdict_NoFailureCheck(stage_result, text) ==
    IF IsNone(text) THEN "raise" ELSE "continue"

\* main.py 55 and 61-63, 73 and 79-81: what follows a stage's result: the
\* failure branch, or the use of its text (len(None) raises TypeError)
StageVerdict(stage_result, text) ==
    IF ~stage_result.success THEN "failed"
    ELSE IF IsNone(text) THEN "raise"
    ELSE "continue"

\* main.py 42-64: process_and_translate up to the end of stage 1
PipelineSummarize ==
    /\ pc = "ready"
    /\ \E input_text \in Texts, target_language \in Langs,
          summary_style \in Styles, reply \in RepliesC :
          LET r == SummarizeText(input_text, summary_style, env, reply)
              summary_result == r.out.value
              result0 == [input |-> input_text, target_language |-> target_language,
                          stages |-> EmptyDict]
              result1 == [result0 EXCEPT !.stages =
                             Put(@, "openai_summary", summary_result)]
          IN  /\ call' = [fn |-> "process_and_translate", input_text |-> input_text,
                          target_language |-> target_language,
                          summary_style |-> summary_style]
              /\ wire' = r.wire
              /\ trace' = <<[fn |-> "summarize_text", text |-> input_text, out |-> r.out]>>
              /\ IF StageVerdict(summary_result, summary_result.response) = "failed"
                 THEN /\ result' = StageFailed(result1, "OpenAI", summary_result.error)
                      /\ outcome' = Ret(result')
                      /\ pc' = "done"
                 ELSE IF StageVerdict(summary_result, summary_result.response) = "raise"
                 THEN \* len(summary) at line 63
                      /\ result' = result1
                      /\ outcome' = Raise("TypeError")
                      /\ pc' = "done"
                 ELSE /\ result' = result1
                      /\ outcome' = NoOutcome
                      /\ pc' = "stage2"
    /\ UNCHANGED <<env, req, fs, served>>

\* main.py 66-92: stage 2 and the final result
PipelineTranslate ==
    /\ pc = "stage2"
    /\ \E reply \in RepliesT :
          LET summary == result.stages["openai_summary"].response
              r == TranslateText(summary, "en", call.target_language, NoneS, env, reply)
              result2 == [result EXCEPT !.stages = Put(@, "translator", r.out.value)]
          IN  /\ wire' = wire \o r.wire
              /\ trace' = Append(trace, [fn |-> "translate_text", text |-> summary,
                                         out |-> r.out])
              /\ IF Raised(r.out)
                 THEN /\ result' = result
                      /\ outcome' = r.out
                 ELSE IF StageVerdict(r.out.value, r.out.value.translated_text) = "failed"
                 THEN /\ result' = StageFailed(result2, "Translator", r.out.value.error)
                      /\ outcome' = Ret(result')
                 ELSE IF StageVerdict(r.out.value, r.out.value.translated_text) = "raise"
                 THEN \* len(translated_text) at line 81
                      /\ result' = result2
                      /\ outcome' = Raise("TypeError")
                 ELSE /\ result' = Put(Put(result2, "success", TRUE), "final_output",
                                       [original_text |-> call.input_text,
                                        english_summary |-> summary,
                                        translated_summary |-> r.out.value.translated_text,
                                        target_language |-> call.target_language])
                      /\ outcome' = Ret(result')
    /\ pc' = "done"
    /\ UNCHANGED <<env, call, req, fs, served>>

---------------------------------------------------------------------------
(* document_processor.py: extract_text *)

\* A file name is the sequence of its pieces: words and the characters
\* ".", "/", " ", "_".  str.lower() on a piece:
Lower(piece) ==
    CASE piece = "TXT" -> "txt"
      [] piece = "PDF" -> "pdf"
      [] piece = "EXE" -> "exe"
      [] OTHER -> piece

RECURSIVE JoinLower(_)
\* "".join(pieces).lower()
JoinLower(pieces) ==
    IF pieces = << >> THEN "" ELSE Lower(Head(pieces)) \o JoinLower(Tail(pieces))

HasDot(f) == \E i \in 1..Len(f) : f[i] = "."
LastDot(f) == CHOOSE i \in 1..Len(f) : f[i] = "." /\ \A j \in (i + 1)..Len(f) : f[j] # "."
AfterLastDot(f) == SubSeq(f, LastDot(f) + 1, Len(f))

\* os.path.splitext(path)[1] without its dot: empty when the name has no
\* dot or only leading dots
SplitExt(p) ==
    IF ~HasDot(p) \/ (\A i \in 1..LastDot(p) : p[i] = ".") THEN << >>
    ELSE AfterLastDot(p)

\* A document as uploaded: whether the parser chosen for it reads it, the
\* text it holds, its pages or paragraphs, the parser's error otherwise
Doc(ok, text, units, err) == [ok |-> ok, text |-> text, units |-> units, err |-> err]
NoDoc == Doc(FALSE, None, 0, "")

\* A file of the upload folder: the request that wrote it and what it wrote
File(owner, doc) == [owner |-> owner, doc |-> doc]
NoFile == File(0, NoDoc)

ExtractFailure(err) == [success |-> FALSE, text |-> None, error |-> err]

\* document_processor.py 11-109: the three extractors
Extractor(type, doc) ==
    CASE type = "pdf" ->
           IF doc.ok
           THEN [success |-> TRUE, text |-> doc.text, page_count |-> doc.units,
                 file_type |-> "pdf", error |-> NoError]
           ELSE ExtractFailure(<<"Failed to extract PDF text: ", doc.err>>)
      [] type = "docx" ->
           IF doc.ok
           THEN [success |-> TRUE, text |-> doc.text, paragraph_count |-> doc.units,
                 file_type |-> "docx", error |-> NoError]
           ELSE ExtractFailure(<<"Failed to extract DOCX text: ", doc.err>>)
      [] OTHER ->
           IF doc.ok
           THEN [success |-> TRUE, text |-> doc.text, file_type |-> "txt",
                 error |-> NoError]
           ELSE ExtractFailure(<<"Failed to read text file: ", doc.err>>)

\* The existence test left out
Exists_Always(file) == TRUE
\* document_processor.py 123: os.path.exists(file_path)
Exists(file) == file # NoFile

\* document_processor.py 131-133: the type hint, or else the extension in
\* lower case without its dot
ResolveType(file_path, file_type) ==
    IF Truthy(file_type) THEN file_type ELSE JoinLower(SplitExt(file_path))

\* document_processor.py 136-143: extractors.get(file_type)
Extractors(type) ==
    CASE type = "pdf" -> "extract_text_from_pdf"
      [] type = "docx" -> "extract_text_from_docx"
      [] type \in {"txt", "text"} -> "extract_text_from_txt"
      [] OTHER -> NoneS

\* document_processor.py 112-152: extract_text on the file found at file_path
ExtractText(file_path, file_type, file) ==
    IF ~Exists(file)
    THEN ExtractFailure(<<"File not found: ">> \o file_path)
    ELSE LET type == ResolveType(file_path, file_type)
         IN  IF Extractors(type) = NoneS
             THEN ExtractFailure(<<"Unsupported file type: ", type,
                                   ". Supported: pdf, docx, txt">>)
             ELSE Extractor(type, file.doc)

\* The parsers extract_text calls, in order
ParsersCalled(file_path, file_type, file) ==
    IF ~Exists(file) \/ Extractors(ResolveType(file_path, file_type)) = NoneS
    THEN << >>
    ELSE <<Extractors(ResolveType(file_path, file_type))>>

\* A PDF as pdfplumber shows it: whether it opens, and the text extract_text()
\* gives for each page ("" for a page without text)
Pdf(opens, pages) == [opens |-> opens, pages |-> pages]

RECURSIVE TextContent(_, _)
\* document_processor.py 24-30: text_content, as (page number, text) pairs,
\* for the pages from page_num on
TextContent(pages, page_num) ==
    IF page_num > Len(pages) THEN << >>
    ELSE (IF pages[page_num] # ""
          THEN <<[page_num |-> page_num, page_text |-> pages[page_num]]>>
          ELSE << >>) \o TextContent(pages, page_num + 1)

RECURSIVE JoinBlocks(_)
\* document_processor.py 30 and 32: "\n\n".join of the labelled pages
JoinBlocks(text_content) ==
    IF text_content = << >> THEN << >>
    ELSE <<"--- Page " \o ToString(Head(text_content).page_num) \o " ---\n",
           Head(text_content).page_text>>
         \o (IF Len(text_content) > 1 THEN <<"\n\n">> ELSE << >>)
         \o JoinBlocks(Tail(text_content))

\* document_processor.py 11-47: extract_text_from_pdf
ExtractTextFromPdf(pdf) ==
    IF ~pdf.opens
    THEN ExtractFailure(<<"Failed to extract PDF text: ", "No /Root object">>)
    ELSE [success |-> TRUE, text |-> JoinBlocks(TextContent(pdf.pages, 1)),
          page_count |-> Len(TextContent(pdf.pages, 1)), file_type |-> "pdf",
          error |-> NoError]

---------------------------------------------------------------------------
(* app.py: the /upload and /analyze handlers *)

MAX_CONTENT_LENGTH == 16 * 1024 * 1024
ALLOWED_EXTENSIONS == {"pdf", "docx", "txt"}

\* The extension test dropped: any name with a dot passes
allowed_file_AnyExtension(filename) == HasDot(filename)

\* app.py 41-43
allowed_file(filename) ==
    HasDot(filename) /\ JoinLower(AfterLastDot(filename)) \in ALLOWED_EXTENSIONS

RECURSIVE Replace(_, _, _)
\* str.replace(old, new), piece by piece
Replace(f, old, new) ==
    IF f = << >> THEN << >>
    ELSE <<IF Head(f) = old THEN new ELSE Head(f)>> \o Replace(Tail(f), old, new)

RECURSIVE LStrip(_, _)
LStrip(f, chars) ==
    IF f # << >> /\ Head(f) \in chars THEN LStrip(Tail(f), chars) ELSE f

RECURSIVE RStrip(_, _)
RStrip(f, chars) ==
    IF f # << >> /\ f[Len(f)] \in chars THEN RStrip(SubSeq(f, 1, Len(f) - 1), chars) ELSE f

Strip(f, chars) == RStrip(LStrip(f, chars), chars)

RECURSIVE JoinWords(_)
\* "_".join(name.split()) on a name without leading or trailing blanks
JoinWords(f) ==
    IF f = << >> THEN << >>
    ELSE IF Head(f) = " "
         THEN <<"_">> \o JoinWords(LStrip(f, {" "}))
         ELSE <<Head(f)>> \o JoinWords(Tail(f))

\* werkzeug's secure_filename, called at app.py 181 and 282: path separators
\* become blanks, runs of blanks become "_", leading and trailing "." and
\* "_" are stripped
secure_filename(filename) ==
    Strip(JoinWords(Strip(Replace(filename, "/", " "), {" "})), {".", "_"})

\* No truncation: the whole text
Slice_Whole(text, n) == text
\* text[:n]
Slice(text, n) == IF text.len > n THEN [text EXCEPT !.len = n] ELSE text
\* text + "..."
Ellipsis(text) == [id |-> text.id \o "...", len |-> text.len + 3]
\* not text or not text.strip()
IsBlank(text) == IsNone(text) \/ text.len = 0 \/ text.id \in {" ", " \n\t "}

Response(status, body) == [status |-> status, body |-> body]
\* Every failure answered 500
ErrorResponse_Always500(status, err) ==
    [status |-> IF status = 0 THEN 0 ELSE 500, body |-> [success |-> FALSE, error |-> err]]
ErrorResponse(status, err) == Response(status, [success |-> FALSE, error |-> err])
Call(fn, text) == [fn |-> fn, text |-> text]
\* A call together with what it returned
Returning(c, out) == [fn |-> c.fn, text |-> c.text, out |-> out]

\* app.py 241-255: translate and answer
UploadTranslate(response_data, text_to_translate, source_lang, target_lang, calls, e, replyT) ==
    LET r == TranslateText(text_to_translate, source_lang, target_lang, NoneS, e, replyT)
        calls2 == Append(calls, Call("translate_text", text_to_translate))
    IN  IF Raised(r.out) THEN [out |-> r.out, calls |-> calls2]
        ELSE IF r.out.value.success
        THEN IF IsNone(text_to_translate)
             THEN \* len(text_to_translate) at line 247
                  [out |-> Raise("TypeError"), calls |-> calls2]
             ELSE [out |-> Ret(Response(200,
                          Put(Put(Put(response_data, "success", TRUE),
                                  "original_text",
                                  IF text_to_translate.len > 500
                                  THEN Ellipsis(Slice(text_to_translate, 500))
                                  ELSE text_to_translate),
                              "translated_text", r.out.value.translated_text))),
                   calls |-> calls2]
        ELSE [out |-> Ret(ErrorResponse(500, r.out.value.error)), calls |-> calls2]

\* app.py 188-255: the try block of upload_and_translate, after file.save
UploadTry(filename, file, should_summarize, source_lang, target_lang, e, replyC, replyT) ==
    LET extraction_result == ExtractText(filename, NoneS, file)
        extracted_text == extraction_result.text
        calls1 == <<Call("extract_text", None)>>
        response_data == [filename |-> filename,
                          file_type |-> extraction_result.file_type,
                          extracted_text_length |-> extracted_text.len,
                          source_lang |-> source_lang, target_lang |-> target_lang]
        Truncated(data, max_chars) ==
            IF extracted_text.len > max_chars THEN Put(data, "text_truncated", TRUE)
            ELSE data
        text_to_summarize == Slice(extracted_text, 4000)
        s == SummarizeText(text_to_summarize, "concise", e, replyC)
        summary_result == s.out.value
        calls2 == Append(calls1, Returning(Call("summarize_text", text_to_summarize), s.out))
    IN  IF ~extraction_result.success
        THEN [out |-> Ret(ErrorResponse(500, extraction_result.error)), calls |-> calls1]
        ELSE IF IsBlank(extracted_text)
        THEN [out |-> Ret(ErrorResponse(400, <<"No text content found in document">>)),
              calls |-> calls1]
        ELSE IF should_summarize
        THEN IF summary_result.success
             THEN UploadTranslate(
                      Put(Put(Truncated(response_data, 4000),
                              "summary", summary_result.response),
                          "tokens_used", summary_result.usage.total_tokens),
                      summary_result.response, source_lang, target_lang, calls2,
                      e, replyT)
             ELSE [out |-> Ret(ErrorResponse(500, <<"Summarization failed: ">>
                                                  \o summary_result.error)),
                   calls |-> calls2]
        ELSE UploadTranslate(Truncated(response_data, 10000),
                             Slice(extracted_text, 10000), source_lang, target_lang,
                             calls1, e, replyT)

\* app.py 288-322: the try block of analyze_document, after file.save
AnalyzeTry(filename, file, custom_prompt, e, replyC) ==
    LET extraction_result == ExtractText(filename, NoneS, file)
        extracted_text == Slice(extraction_result.text, 4000)
        calls1 == <<Call("extract_text", None)>>
        prompt == IF custom_prompt # ""
                  THEN Prompt(custom_prompt \o "\n\nDocument content:\n", extracted_text)
                  ELSE Prompt("Analyze and summarize the following document:\n\n",
                              extracted_text)
        g == GenerateAiResponse(prompt, NoneS, NoneS, NoneS, e, replyC)
        res == g.out.value
        calls2 == Append(calls1, Call("generate_ai_response", extracted_text))
    IN  IF ~extraction_result.success
        THEN [out |-> Ret(ErrorResponse(500, extraction_result.error)), calls |-> calls1]
        ELSE IF res.success
        THEN [out |-> Ret(Response(200,
                     [success |-> TRUE, filename |-> filename,
                      analysis |-> res.response,
                      tokens_used |-> res.usage.total_tokens])),
              calls |-> calls2]
        ELSE [out |-> Ret(ErrorResponse(500, res.error)), calls |-> calls2]

\* request.get_json(): null, a JSON object (a dict of its members) or an
\* array
JsonNull == [kind |-> "null", fields |-> EmptyDict]
JsonObject(fields) == [kind |-> "object", fields |-> fields]
JsonArray == [kind |-> "array", fields |-> EmptyDict]
\* `not data`
NotData(data) == data.kind = "null" \/ (data.kind = "object" /\ DOMAIN data.fields = {})
\* data.get(key, default)
Get(data, key, default) == IF HasKey(data.fields, key) THEN data.fields[key] ELSE default
\* The empty string let through: only a null or absent text is refused
NotText_NullOnly(text) == IsNone(text)
\* `not text`
NotText(text) == IsNone(text) \/ text.len = 0

\* The text of the request translated, not the summary
TranslateAnswer_OriginalText(response_data, text, source_lang, target_lang, calls, e, replyT) ==
    LET r == TranslateText(response_data.original_text, source_lang, target_lang,
                           NoneS, e, replyT)
        calls2 == Append(calls, Call("translate_text", response_data.original_text))
    IN  IF Raised(r.out) THEN [out |-> r.out, calls |-> calls2]
        ELSE IF r.out.value.success
        THEN [out |-> Ret(Response(200,
                     Put(Put(response_data, "success", TRUE),
                         "translated_text", r.out.value.translated_text))),
              calls |-> calls2]
        ELSE [out |-> Ret(ErrorResponse(500, r.out.value.error)), calls |-> calls2]

\* app.py 134-146: translate and answer
TranslateAnswer(response_data, text, source_lang, target_lang, calls, e, replyT) ==
    LET r == TranslateText(text, source_lang, target_lang, NoneS, e, replyT)
        calls2 == Append(calls, Call("translate_text", text))
    IN  IF Raised(r.out) THEN [out |-> r.out, calls |-> calls2]
        ELSE IF r.out.value.success
        THEN [out |-> Ret(Response(200,
                     Put(Put(response_data, "success", TRUE),
                         "translated_text", r.out.value.translated_text))),
              calls |-> calls2]
        ELSE [out |-> Ret(ErrorResponse(500, r.out.value.error)), calls |-> calls2]

\* app.py 98-146: translate_endpoint
TranslateEndpoint(data, e, replyC, replyT) ==
    IF NotData(data)
    THEN [out |-> Ret(ErrorResponse(400, <<"No JSON data provided">>)), calls |-> << >>]
    ELSE IF data.kind = "array"
    THEN \* a list has no attribute 'get' (line 103)
         [out |-> Raise("AttributeError"), calls |-> << >>]
    ELSE
    LET text == Get(data, "text", None)
        source_lang == Get(data, "source_lang", "en")
        target_lang == Get(data, "target_lang", "hi")
        should_summarize == Get(data, "summarize", FALSE)
        response_data == [original_text |-> text, source_lang |-> source_lang,
                          target_lang |-> target_lang]
        s == SummarizeText(text, "concise", e, replyC)
        summary_result == s.out.value
        calls1 == <<Returning(Call("summarize_text", text), s.out)>>
    IN  IF NotText(text)
        THEN [out |-> Ret(ErrorResponse(400, <<"No text provided">>)), calls |-> << >>]
        ELSE IF ~Truthy(target_lang)
        THEN [out |-> Ret(ErrorResponse(400, <<"No target_lang provided">>)),
              calls |-> << >>]
        ELSE IF should_summarize
        THEN IF summary_result.success
             THEN TranslateAnswer(
                      Put(Put(response_data, "summary", summary_result.response),
                          "tokens_used", summary_result.usage.total_tokens),
                      summary_result.response, source_lang, target_lang, calls1,
                      e, replyT)
             ELSE [out |-> Ret(ErrorResponse(500, <<"Summarization failed: ">>
                                                  \o summary_result.error)),
                   calls |-> calls1]
        ELSE TranslateAnswer(response_data, text, source_lang, target_lang, << >>,
                             e, replyT)

\* No rejection: the upload passed the checks
Accepted == ErrorResponse(0, << >>)

\* app.py 36, 161-173 and 272-278, 329-334: the checks before the file is
\* saved, and the response of the one that fails
RejectUpload(route, size, hasFile, filename) ==
    IF size > MAX_CONTENT_LENGTH
    THEN ErrorResponse(413, <<"File too large. Maximum size is 16MB.">>)
    ELSE IF ~hasFile
    THEN ErrorResponse(400, <<"No file provided">>)
    ELSE IF route = "upload"
    THEN IF filename = << >>
         THEN ErrorResponse(400, <<"No file selected">>)
         ELSE IF ~allowed_file(filename)
         THEN ErrorResponse(400, <<"File type not allowed. Supported: ",
                                   "pdf, docx, txt in set order">>)
         ELSE Accepted
    ELSE IF filename = << >> \/ ~allowed_file(filename)
         THEN ErrorResponse(400, <<"Invalid file">>)
         ELSE Accepted

\* The requests the model sends
FileNames ==
    { <<"a", ".", "txt">>, <<"/", "a", ".", "txt">>, <<"b", ".", "PDF">>,
      <<".", "txt">>, <<"a", ".", "exe">>, <<"a", ".", "txt", ".", "exe">>,
      <<"a">>, << >> }
Routes == {"upload", "analyze"}
Form(summarize, prompt) == [summarize |-> summarize, prompt |-> prompt]
Arrival(route, hasFile, filename, size, form) ==
    [route |-> route, hasFile |-> hasFile, filename |-> filename, size |-> size,
     form |-> form]
Arrivals ==
    \* uploads and analyses of well-named files, at the size limit
    {Arrival("upload", TRUE, f, MAX_CONTENT_LENGTH, Form(b, "")) :
         f \in {<<"a", ".", "txt">>, <<"b", ".", "PDF">>}, b \in BOOLEAN}
    \cup {Arrival("upload", TRUE, f, MAX_CONTENT_LENGTH, Form(FALSE, "")) :
         f \in {<<"/", "a", ".", "txt">>, <<".", "txt">>}}
    \cup {Arrival("analyze", TRUE, <<"a", ".", "txt">>, MAX_CONTENT_LENGTH, Form(FALSE, p)) :
         p \in {"", "List the key dates."}}
    \* other names, no name, no file part
    \cup {Arrival(r, TRUE, f, MAX_CONTENT_LENGTH, Form(FALSE, "")) :
         r \in Routes, f \in {<<"a", ".", "exe">>, << >>}}
    \cup {Arrival("upload", TRUE, <<"a", ".", "txt", ".", "exe">>, MAX_CONTENT_LENGTH,
                  Form(TRUE, "")),
          Arrival("analyze", TRUE, <<"a">>, MAX_CONTENT_LENGTH, Form(FALSE, ""))}
    \cup {Arrival(r, FALSE, << >>, MAX_CONTENT_LENGTH, Form(FALSE, "")) : r \in Routes}
    \* bodies over the size limit
    \cup {Arrival(r, TRUE, <<"a", ".", "txt">>, MAX_CONTENT_LENGTH + 1, Form(FALSE, "")) :
         r \in Routes}
    \cup {Arrival("upload", TRUE, <<"a", ".", "exe">>, 20 * 1024 * 1024, Form(FALSE, ""))}
Docs ==
    { Doc(TRUE, Str("document", 5200), 3, ""),
      Doc(TRUE, Str(" \n\t ", 4), 1, ""),
      Doc(FALSE, None, 0, "file is damaged") }
\* What file.save does: it writes the document, or fails part-way
Saves ==
    {[ok |-> TRUE, doc |-> d] : d \in Docs}
        \cup {[ok |-> FALSE, doc |-> Doc(FALSE, None, 0, "truncated")]}
Paths == {secure_filename(f) : f \in FileNames}

WebRepliesT ==
    { ReplyT("timeout", "Read timed out.", 0, NoBody, "RequestException"),
      ReplyT("response", "", 200,
             ArrayBody(<<Element(FALSE, << >>, FALSE, NoneS)>>), "RequestException"),
      ReplyT("response", "", 200, ArrayBody(<<OkElement(Translated)>>),
             "RequestException") }
WebRepliesC ==
    { ReplyC("ok", TRUE, Summary, TRUE, Usage(40, 20), FALSE, "", NoneS, ""),
      ReplyC("exception", FALSE, None, FALSE, NoUsage, TRUE, "Rate limit reached",
             NoneS, "Error code: 429") }
WebEnvs ==
    {e \in Envs : /\ e.AZURE_TRANSLATOR_KEY = "env-translator-key"
                  /\ e.AZURE_OPENAI_API_KEY = "env-openai-key"
                  /\ e.AZURE_OPENAI_ENDPOINT = "https://env.openai.azure.com/"}

\* The server handles two requests at a time, MaxRequests in all
Handlers == {1, 2}
MaxRequests == 2

IdleReq ==
    [pc |-> "idle", id |-> 0, route |-> "", hasFile |-> FALSE, filename |-> << >>,
     size |-> 0, form |-> [summarize |-> FALSE, prompt |-> ""], path |-> << >>,
     saved |-> FALSE, extracted |-> FALSE, out |-> NoOutcome, calls |-> << >>]

\* app.py 161-185 and 272-286: a request arrives; it is rejected, or its
\* file is saved under the upload folder
ReceiveFrom(h, arrivals, saves) ==
    /\ req[h].pc \in {"idle", "done"}
    /\ served < MaxRequests
    /\ served' = served + 1
    /\ \E a \in arrivals :
          LET id == served + 1
              rejection == RejectUpload(a.route, a.size, a.hasFile, a.filename)
              temp_path == secure_filename(a.filename)
              request == [IdleReq EXCEPT !.id = id, !.route = a.route,
                                         !.hasFile = a.hasFile,
                                         !.filename = a.filename,
                                         !.size = a.size, !.form = a.form]
          IN  IF rejection # Accepted
              THEN /\ req' = [req EXCEPT ![h] =
                                 [request EXCEPT !.pc = "done", !.out = Ret(rejection)]]
                   /\ fs' = fs
              ELSE \E save \in saves :
                   /\ fs' = [fs EXCEPT ![temp_path] = File(id, save.doc)]
                   /\ req' = [req EXCEPT ![h] =
                                 [request EXCEPT
                                     !.pc = IF save.ok THEN "saved" ELSE "cleanup",
                                     !.path = temp_path,
                                     !.saved = TRUE,
                                     !.out = IF save.ok THEN NoOutcome
                                             ELSE Raise("OSError")]]
    /\ UNCHANGED <<env, pc, call, wire, trace, result, outcome>>

Receive(h) == ReceiveFrom(h, Arrivals, Saves)

\* app.py 188-255 and 288-322: the rest of the try block, from extract_text
\* to the return statement
HandleWith(h, repliesC, repliesT) ==
    /\ req[h].pc = "saved"
    /\ \E replyC \in repliesC, replyT \in repliesT :
          LET r == req[h]
              t == IF r.route = "upload"
                   THEN UploadTry(r.path, fs[r.path], r.form.summarize, "en", "hi",
                                  env, replyC, replyT)
                   ELSE AnalyzeTry(r.path, fs[r.path], r.form.prompt, env, replyC)
          IN  req' = [req EXCEPT ![h] =
                         [r EXCEPT !.pc = "cleanup", !.extracted = TRUE,
                                   !.out = t.out, !.calls = t.calls]]
    /\ UNCHANGED <<env, pc, call, wire, trace, result, outcome, fs, served>>

Handle(h) == HandleWith(h, WebRepliesC, WebRepliesT)

\* The removal placed at the end of the try block, not in a finally clause
Finally_OnSuccessOnly(out, exists) ==
    exists /\ Returned(out) /\ out.value.status = 200

\* app.py 257-259 and 324-325: the finally clause runs however the try
\* block ended, and removes the file if it exists
Finally(out, exists) == exists

\* app.py 259 and 325: os.path.exists(temp_path)
CheckExists(h) ==
    /\ req[h].pc = "cleanup"
    /\ req' = [req EXCEPT ![h].pc =
                  IF Finally(req[h].out, fs[req[h].path] # NoFile)
                  THEN "remove" ELSE "done"]
    /\ UNCHANGED <<env, pc, call, wire, trace, result, outcome, fs, served>>

\* app.py 260 and 326: os.remove(temp_path)
Remove(h) ==
    /\ req[h].pc = "remove"
    /\ IF fs[req[h].path] # NoFile
       THEN /\ fs' = [fs EXCEPT ![req[h].path] = NoFile]
            /\ req' = [req EXCEPT ![h].pc = "done"]
       ELSE /\ fs' = fs
            /\ req' = [req EXCEPT ![h].pc = "done",
                                  ![h].out = Raise("FileNotFoundError")]
    /\ UNCHANGED <<env, pc, call, wire, trace, result, outcome, served>>

\* app.py 337-342: what the client receives
HttpResponse(out) ==
    IF Raised(out) THEN ErrorResponse(500, <<"Internal server error">>)
    ELSE out.value

NoCall == [fn |-> "none"]

Init ==
    /\ env \in Envs
    /\ pc = "ready"
    /\ call = NoCall
    /\ wire = << >>
    /\ trace = << >>
    /\ result = EmptyDict
    /\ outcome = NoOutcome
    /\ req = [h \in Handlers |-> IdleReq]
    /\ fs = [p \in Paths |-> NoFile]
    /\ served = 0

Next ==
    \/ CallTranslateText
    \/ CallGenerateAiResponse
    \/ CallSummarizeText
    \/ PipelineSummarize
    \/ PipelineTranslate

Spec == Init /\ [][Next]_vars

\* The HTTP server: requests arrive and are handled concurrently
InitWeb ==
    /\ env \in WebEnvs
    /\ pc = "ready"
    /\ call = NoCall
    /\ wire = << >>
    /\ trace = << >>
    /\ result = EmptyDict
    /\ outcome = NoOutcome
    /\ req = [h \in Handlers |-> IdleReq]
    /\ fs = [p \in Paths |-> NoFile]
    /\ served = 0

NextWeb ==
    \E h \in Handlers :
        \/ Receive(h)
        \/ Handle(h)
        \/ CheckExists(h)
        \/ Remove(h)

SpecWeb == InitWeb /\ [][NextWeb]_vars

---------------------------------------------------------------------------
(* One handler at a time, over the three POST routes and a wider range of *)
(* bodies, documents and provider replies                                 *)

\* A member of a JSON object: absent, or present with one of the values
Member(key, values) == {EmptyDict} \cup {key :> v : v \in values}
TranslateBodies ==
    {JsonNull, JsonArray}
    \cup {JsonObject(t @@ g @@ m) :
             t \in Member("text", {Str("Hello", 5), Str("", 0), None}),
             g \in Member("target_lang", {"fr", "", NoneS}),
             m \in Member("summarize", {TRUE, FALSE})}

ApiArrivals ==
    {Arrival("upload", TRUE, f, MAX_CONTENT_LENGTH, Form(b, "")) :
         f \in {<<"a", ".", "txt">>, <<"b", ".", "PDF">>}, b \in BOOLEAN}
    \cup {Arrival("analyze", TRUE, <<"a", ".", "txt">>, MAX_CONTENT_LENGTH, Form(FALSE, p)) :
         p \in {"", "List the key dates."}}
    \cup {Arrival(r, TRUE, f, MAX_CONTENT_LENGTH, Form(FALSE, "")) :
         r \in Routes, f \in {<<"a", ".", "exe">>, << >>}}
    \cup {Arrival(r, FALSE, << >>, MAX_CONTENT_LENGTH, Form(FALSE, "")) : r \in Routes}
    \cup {Arrival(r, TRUE, <<"a", ".", "txt">>, MAX_CONTENT_LENGTH + 1, Form(TRUE, "")) :
         r \in Routes}
\* Documents around the two truncation limits, blank ones, an unreadable one
ApiDocs ==
    {Doc(TRUE, Str("document", n), 1, "") : n \in {1, 4000, 4001, 10000, 10001}}
    \cup { Doc(TRUE, Str("", 0), 0, ""),
           Doc(TRUE, Str(" \n\t ", 4), 1, ""),
           Doc(FALSE, None, 0, "file is damaged") }
ApiSaves == {[ok |-> TRUE, doc |-> d] : d \in ApiDocs}
ApiRepliesT ==
    { ReplyT("timeout", "Read timed out.", 0, NoBody, "RequestException"),
      ReplyT("response", "", 401,
             Body("object", << >>, TRUE, ErrorMember(TRUE, TRUE, "Access denied")),
             "RequestException"),
      ReplyT("response", "", 200, ArrayBody(<< >>), "RequestException"),
      ReplyT("response", "", 200,
             ArrayBody(<<Element(FALSE, << >>, FALSE, NoneS)>>), "RequestException"),
      ReplyT("response", "", 200, ArrayBody(<<OkElement(None)>>), "RequestException"),
      ReplyT("response", "", 200, ArrayBody(<<OkElement(Translated)>>),
             "RequestException") }
ApiRepliesC ==
    { ReplyC("ok", TRUE, Summary, TRUE, Usage(40, 20), FALSE, "", NoneS, ""),
      ReplyC("ok", TRUE, None, TRUE, Usage(40, 0), FALSE, "", NoneS, ""),
      ReplyC("ok", FALSE, None, TRUE, Usage(40, 0), FALSE, "", NoneS, ""),
      ReplyC("exception", FALSE, None, FALSE, NoUsage, TRUE, "Rate limit reached",
             NoneS, "Error code: 429") }

\* app.py 85-146: a /translate request, from its arrival to its response
Translate(h) ==
    /\ req[h].pc \in {"idle", "done"}
    /\ served < MaxRequests
    /\ served' = served + 1
    /\ \E data \in TranslateBodies, replyC \in ApiRepliesC, replyT \in ApiRepliesT :
          LET t == TranslateEndpoint(data, env, replyC, replyT)
          IN  req' = [req EXCEPT ![h] =
                         [IdleReq EXCEPT !.pc = "done", !.id = served + 1,
                                         !.route = "translate", !.form = data,
                                         !.out = t.out, !.calls = t.calls]]
    /\ UNCHANGED <<env, pc, call, wire, trace, result, outcome, fs>>

ReceiveApi(h) == ReceiveFrom(h, ApiArrivals, ApiSaves)
HandleApi(h) == HandleWith(h, ApiRepliesC, ApiRepliesT)

NextApi ==
    \/ Translate(1)
    \/ ReceiveApi(1)
    \/ HandleApi(1)
    \/ CheckExists(1)
    \/ Remove(1)

SpecApi == InitWeb /\ [][NextApi]_vars

---------------------------------------------------------------------------
(* A program calling the document processor *)

DocPaths ==
    { <<"a", ".", "txt">>, <<"b", ".", "PDF">>, <<"c", ".", "docx">>,
      <<"notes", ".", "text">>, <<"a", ".", "exe">>, <<"a">>, <<".", "txt">> }
TypeHints == {NoneS, "", "pdf", "docx", "txt", "text", "PDF", "exe"}
DocFiles == {NoFile} \cup {File(1, d) : d \in Docs}

MaxPages == 3
PageTexts == {"", "alpha", "beta"}
Pdfs ==
    {Pdf(FALSE, << >>)}
    \cup {Pdf(TRUE, pages) :
             pages \in UNION {[1..n -> PageTexts] : n \in 0..MaxPages}}

\* A call of extract_text, start to end
CallExtractText ==
    /\ pc = "ready"
    /\ \E file_path \in DocPaths, file_type \in TypeHints, file \in DocFiles :
          /\ call' = [fn |-> "extract_text", file_path |-> file_path,
                      file_type |-> file_type, file |-> file]
          /\ trace' = ParsersCalled(file_path, file_type, file)
          /\ outcome' = Ret(ExtractText(file_path, file_type, file))
    /\ pc' = "done"
    /\ UNCHANGED <<env, wire, result, req, fs, served>>

\* A call of extract_text_from_pdf, start to end
CallExtractTextFromPdf ==
    /\ pc = "ready"
    /\ \E pdf \in Pdfs :
          /\ call' = [fn |-> "extract_text_from_pdf", pdf |-> pdf]
          /\ outcome' = Ret(ExtractTextFromPdf(pdf))
    /\ trace' = << >>
    /\ pc' = "done"
    /\ UNCHANGED <<env, wire, result, req, fs, served>>

NextDoc ==
    \/ CallExtractText
    \/ CallExtractTextFromPdf

SpecDoc == InitWeb /\ [][NextDoc]_vars

---------------------------------------------------------------------------
(* Vocabulary of the properties *)

IsPipeline == call.fn = "process_and_translate"
IsTranslateCall == call.fn = "translate_text"
IsCompletionCall == call.fn = "generate_ai_response"

Invoked(fn) == \E i \in 1..Len(trace) : trace[i].fn = fn
StageOut(fn) == trace[CHOOSE i \in 1..Len(trace) : trace[i].fn = fn].out
WireCount(api) == Cardinality({i \in 1..Len(wire) : wire[i].api = api})

\* The stage returned a result record with success = flag
StageReturned(fn, flag) ==
    /\ Invoked(fn)
    /\ Returned(StageOut(fn))
    /\ StageOut(fn).value.success = flag

---------------------------------------------------------------------------
(* C1: in process_and_translate, whenever the summarize stage returns a    *)
(* failure result, the run is over without translate_text having been      *)
(* invoked (no call, no POST), the returned result has success = FALSE and *)
(* its error is "OpenAI stage failed: " followed by the stage's error.     *)
C1_ShortCircuit ==
    (IsPipeline /\ StageReturned("summarize_text", FALSE)) =>
        /\ pc = "done"
        /\ ~Invoked("translate_text")
        /\ WireCount("translate") = 0
        /\ Returned(outcome)
        /\ outcome.value.success = FALSE
        /\ Head(outcome.value.error) = "OpenAI stage failed: "
        /\ Tail(outcome.value.error) = StageOut("summarize_text").value.error

\* A run whose completion request was sent and failed at the provider
C1_Witness ==
    /\ IsPipeline
    /\ StageReturned("summarize_text", FALSE)
    /\ WireCount("completion") = 1
    /\ pc = "done"

(* C2: missing credentials short-circuit before any network call:          *)
(* translate_text with no API key (argument and environment both unset or  *)
(* empty), and generate_ai_response with no API key or no endpoint, return *)
(* a failure result whose error names the missing configuration item, and  *)
(* nothing was put on the wire.                                            *)
C2_MissingCredentials ==
    /\ (IsTranslateCall /\ ~Truthy(call.api_key) /\ ~Truthy(env.AZURE_TRANSLATOR_KEY)) =>
          /\ wire = << >>
          /\ Returned(outcome)
          /\ outcome.value.success = FALSE
          /\ outcome.value.error =
                 <<"Missing AZURE_TRANSLATOR_KEY. Please set it in .env file.">>
    /\ (IsCompletionCall /\ ~Truthy(call.api_key) /\ ~Truthy(env.AZURE_OPENAI_API_KEY)) =>
          /\ wire = << >>
          /\ Returned(outcome)
          /\ outcome.value.success = FALSE
          /\ outcome.value.error =
                 <<"Missing AZURE_OPENAI_API_KEY. Please set it in .env file.">>
    /\ (IsCompletionCall /\ ~Truthy(call.endpoint) /\ ~Truthy(env.AZURE_OPENAI_ENDPOINT)) =>
          /\ wire = << >>
          /\ Returned(outcome)
          /\ outcome.value.success = FALSE
          /\ outcome.value.error \in
                 {<<"Missing AZURE_OPENAI_API_KEY. Please set it in .env file.">>,
                  <<"Missing AZURE_OPENAI_ENDPOINT. Please set it in .env file.">>}
          /\ (Truthy(call.api_key) \/ Truthy(env.AZURE_OPENAI_API_KEY)) =>
                 outcome.value.error =
                     <<"Missing AZURE_OPENAI_ENDPOINT. Please set it in .env file.">>

\* generate_ai_response called with a key but no endpoint anywhere
C2_Witness ==
    /\ IsCompletionCall
    /\ pc = "done"
    /\ Truthy(call.api_key)
    /\ ~Truthy(call.endpoint)
    /\ ~Truthy(env.AZURE_OPENAI_ENDPOINT)

(* C3: translate_text returns a success/failure result record and never    *)
(* raises to its caller, whatever the remote call does: timeout,           *)
(* connection error, non-2xx response, 2xx response with any body.         *)
C3_NeverRaises ==
    (IsTranslateCall /\ pc = "done") => Returned(outcome)

(* C4: every result translate_text returns has exactly one of              *)
(* translated_text and error populated: success means translated_text is   *)
(* not None and error is None; failure means translated_text is None and   *)
(* error is not None.                                                      *)
C4_ExactlyOnePopulated ==
    (IsTranslateCall /\ pc = "done" /\ Returned(outcome)) =>
        IF outcome.value.success
        THEN ~IsNone(outcome.value.translated_text) /\ outcome.value.error = NoError
        ELSE IsNone(outcome.value.translated_text) /\ outcome.value.error # NoError

(* C7: process_and_translate returns success = TRUE if and only if both    *)
(* the summarize stage and the translate stage succeeded; final_output is  *)
(* present exactly in that case, and then holds the unmodified input text, *)
(* the summarize stage's response, the translate stage's translated_text   *)
(* and the caller's target language.                                       *)
BothStagesSucceeded ==
    StageReturned("summarize_text", TRUE) /\ StageReturned("translate_text", TRUE)

ReturnedSuccess == Returned(outcome) /\ outcome.value.success

C7_SuccessIffBothStages ==
    (IsPipeline /\ pc = "done") =>
        /\ ReturnedSuccess <=> BothStagesSucceeded
        /\ Returned(outcome) =>
              (HasKey(outcome.value, "final_output") <=> outcome.value.success)
        /\ ReturnedSuccess =>
              outcome.value.final_output =
                  [original_text |-> call.input_text,
                   english_summary |-> StageOut("summarize_text").value.response,
                   translated_summary |-> StageOut("translate_text").value.translated_text,
                   target_language |-> call.target_language]

(* C8: in every result process_and_translate returns, the stages mapping   *)
(* holds the raw result of each stage that was invoked, succeeded or not,  *)
(* and no entry for a stage that was not invoked; when summarize succeeded *)
(* and translate returned a failure, both stage results are present,       *)
(* success is FALSE and the error is "Translator stage failed: " followed  *)
(* by the translate stage's error.                                         *)
StageKept(key, fn) ==
    /\ HasKey(outcome.value.stages, key) <=> Invoked(fn)
    /\ Invoked(fn) => outcome.value.stages[key] = StageOut(fn).value

C8_StagesRetained ==
    (IsPipeline /\ pc = "done" /\ Returned(outcome)) =>
        /\ DOMAIN outcome.value.stages \subseteq {"openai_summary", "translator"}
        /\ StageKept("openai_summary", "summarize_text")
        /\ StageKept("translator", "translate_text")
        /\ (StageReturned("summarize_text", TRUE) /\ StageReturned("translate_text", FALSE)) =>
              /\ DOMAIN outcome.value.stages = {"openai_summary", "translator"}
              /\ outcome.value.success = FALSE
              /\ Head(outcome.value.error) = "Translator stage failed: "
              /\ Tail(outcome.value.error) = StageOut("translate_text").value.error

\* Summarize succeeded, the translation request was sent and answered 401
C8_Witness ==
    /\ IsPipeline
    /\ pc = "done"
    /\ Returned(outcome)
    /\ StageReturned("summarize_text", TRUE)
    /\ StageReturned("translate_text", FALSE)
    /\ WireCount("translate") = 1
    /\ StageOut("translate_text").value.error =
           <<"HTTP Error: ", "401", " - ", "Access denied">>

(* C9: no operation retries. One call of translate_text issues at most one *)
(* POST and no completion request; one call of generate_ai_response issues *)
(* at most one completion request and no POST; one run of                  *)
(* process_and_translate issues at most one completion request followed by *)
(* at most one translation request. A failed attempt is final: nothing is  *)
(* sent after it, and the failure's error text is what the caller gets     *)
(* (behind the stage prefix, for the pipeline).                            *)
FailureIsFinal ==
    (IsPipeline /\ pc = "done") =>
        /\ StageReturned("summarize_text", FALSE) =>
              /\ WireCount("translate") = 0
              /\ Returned(outcome)
              /\ Tail(outcome.value.error) = StageOut("summarize_text").value.error
        /\ StageReturned("translate_text", FALSE) =>
              /\ Returned(outcome)
              /\ Tail(outcome.value.error) = StageOut("translate_text").value.error

C9_NoRetry ==
    /\ WireCount("translate") <= 1
    /\ WireCount("completion") <= 1
    /\ IsTranslateCall => WireCount("completion") = 0
    /\ IsCompletionCall => WireCount("translate") = 0
    /\ IsPipeline =>
          /\ Len(wire) >= 1 => wire[1].api = "completion"
          /\ Len(wire) = 2 => wire[2].api = "translate"
    /\ FailureIsFinal

\* A translation attempt that timed out, after a completion that succeeded
C9_Witness ==
    /\ IsPipeline
    /\ pc = "done"
    /\ Len(wire) = 2
    /\ StageReturned("translate_text", FALSE)
    /\ StageOut("translate_text").value.error = <<"Request failed: ", "Read timed out.">>

---------------------------------------------------------------------------
(* The HTTP handlers and the upload folder *)

Finished(h) == req[h].pc = "done"
\* The file now at the request's path is the one that request wrote
OwnFileExists(h) == fs[req[h].path].owner = req[h].id
Quiescent == \A h \in Handlers : req[h].pc \in {"idle", "done"}

\* C5: when a handler that saved a temporary file has finished, the file it
\* saved no longer exists, however the try block ended (a response of any
\* status, or an exception); and once no handler is running the upload
\* folder is empty.
C5_TempFileRemoved ==
    /\ \A h \in Handlers : Finished(h) /\ req[h].saved => ~OwnFileExists(h)
    /\ Quiescent => \A p \in Paths : fs[p] = NoFile

\* Two handlers have finished after saving a file, one by an exception
\* raised in the try block and one with the translated document
C5_Witness ==
    \E g, h \in Handlers :
        /\ Finished(g) /\ req[g].saved /\ req[g].extracted
        /\ req[g].out = Raise("KeyError")
        /\ Finished(h) /\ req[h].saved /\ req[h].extracted
        /\ Returned(req[h].out) /\ req[h].out.value.status = 200
        /\ \A p \in Paths : fs[p] = NoFile

\* C6: from a request's save to its extract_text call, the file at its
\* path is the file that request saved: no other request has overwritten
\* or deleted it.
C6_NoInterference ==
    \A h \in Handlers : req[h].pc = "saved" => OwnFileExists(h)

\* The extension of an uploaded name: the text after its last dot, in lower
\* case; none when the name has no dot
Extension(filename) ==
    IF HasDot(filename) THEN JoinLower(AfterLastDot(filename)) ELSE ""
Oversized(h) == req[h].size > 16 * 1024 * 1024
WrongType(h) == Extension(req[h].filename) \notin {"pdf", "docx", "txt"}
Rejected(h) ==
    /\ Finished(h)
    /\ Returned(req[h].out)
    /\ req[h].out.value.status \in {400, 413}
    /\ req[h].out.value.body.success = FALSE

\* C10: a request carrying a file that is over 16MB, or whose name has an
\* extension other than pdf, docx, txt (in any case), is answered with an
\* error; no temporary file is saved for it and extract_text is not called
\* for it.
C10_RejectedBeforeExtractor ==
    \A h \in Handlers :
        req[h].pc # "idle" /\ req[h].hasFile /\ (Oversized(h) \/ WrongType(h))
            => /\ Rejected(h)
               /\ ~req[h].saved
               /\ ~req[h].extracted
               /\ req[h].calls = << >>

\* An .exe upload answered 400 and an oversized .txt upload answered 413
C10_Witness ==
    \E g, h \in Handlers :
        /\ req[g].filename = <<"a", ".", "exe">> /\ ~Oversized(g)
        /\ Rejected(g) /\ req[g].out.value.status = 400
        /\ req[h].filename = <<"a", ".", "txt">> /\ Oversized(h)
        /\ Rejected(h) /\ req[h].out.value.status = 413

---------------------------------------------------------------------------
(* The /translate handler and the responses of the three handlers *)

IsTranslateRequest(h) == Finished(h) /\ req[h].route = "translate"
\* The text member of the body is absent, null or the empty string
NoTextGiven(data) ==
    \/ ~HasKey(data.fields, "text")
    \/ data.fields["text"] = None
    \/ data.fields["text"] = Str("", 0)

\* C11: a /translate request whose body is a JSON object (or null) with an
\* empty, null or absent text is answered with a failure of status 400, and
\* neither summarize_text nor translate_text is invoked for it, whatever
\* its summarize flag.
C11_EmptyTextRejected ==
    \A h \in Handlers :
        IsTranslateRequest(h) /\ req[h].form.kind # "array" /\ NoTextGiven(req[h].form)
            => /\ Returned(req[h].out)
               /\ req[h].out.value.status = 400
               /\ req[h].out.value.body.success = FALSE
               /\ req[h].calls = << >>

\* A request with text "" that asks for a summary and names a target language
C11_Witness ==
    \E h \in Handlers :
        /\ IsTranslateRequest(h)
        /\ req[h].form = JsonObject(("text" :> Str("", 0)) @@ ("target_lang" :> "fr")
                                    @@ ("summarize" :> TRUE))
        /\ req[h].out = Ret(ErrorResponse(400, <<"No text provided">>))

\* The first min(len, n) characters of a text
Prefix(text, n) == Str(text.id, IF text.len < n THEN text.len ELSE n)
\* An /upload request whose try block has ended, its file still in place
UploadHandled(h) ==
    /\ req[h].route = "upload"
    /\ req[h].pc = "cleanup"
    /\ req[h].extracted
    /\ fs[req[h].path].doc.ok
Extracted(h) == fs[req[h].path].doc.text
Limit(h) == IF req[h].form.summarize THEN 4000 ELSE 10000

\* C12: in /upload, the text given to summarize_text is the first
\* min(len, 4000) characters of the extracted text; without summarization
\* the text given to translate_text is its first min(len, 10000)
\* characters; and the response has text_truncated (TRUE) exactly when the
\* extracted text is longer than the limit that applies.
C12_TruncationPolicy ==
    \A h \in Handlers :
        UploadHandled(h) =>
            /\ \A i \in 1..Len(req[h].calls) :
                  LET c == req[h].calls[i]
                  IN  /\ c.fn = "summarize_text" => c.text = Prefix(Extracted(h), 4000)
                      /\ c.fn = "translate_text" /\ ~req[h].form.summarize
                            => c.text = Prefix(Extracted(h), 10000)
            /\ Returned(req[h].out) /\ req[h].out.value.status = 200
                  => /\ HasKey(req[h].out.value.body, "text_truncated")
                            <=> Extracted(h).len > Limit(h)
                     /\ HasKey(req[h].out.value.body, "text_truncated")
                            => req[h].out.value.body["text_truncated"] = TRUE

\* A document of 10001 characters translated without summarization: 10000
\* characters are sent and the response is flagged
C12_Witness ==
    \E h \in Handlers :
        /\ UploadHandled(h)
        /\ ~req[h].form.summarize
        /\ Extracted(h).len = 10001
        /\ req[h].calls[Len(req[h].calls)] = Call("translate_text", Str("document", 10000))
        /\ Returned(req[h].out) /\ req[h].out.value.status = 200
        /\ req[h].out.value.body["text_truncated"] = TRUE

\* The handler's try block has ended, or the request was rejected
Answered(h) == req[h].pc \in {"cleanup", "remove", "done"}
Failure(h) == ~HttpResponse(req[h].out).body.success
Status(h) == HttpResponse(req[h].out).status
HasNoText(text) == text.len = 0 \/ text.id = " \n\t "
\* The document of an /upload request was read and holds no text
BlankDocument(h) ==
    /\ req[h].route = "upload"
    /\ fs[req[h].path].doc.ok
    /\ HasNoText(fs[req[h].path].doc.text)

\* C13: a failure response of /translate, /upload or /analyze has status
\* 400 when the request is refused before any downstream call (no or empty
\* JSON, no text, no target_lang, no file, unnamed file, wrong type) or when
\* the uploaded document holds no text; status 500 when extract_text,
\* summarize_text, translate_text or generate_ai_response failed or an
\* exception left the handler; 413 only for an oversized body; and never a
\* success status.
C13_FailureStatus ==
    \A h \in Handlers :
        Answered(h) /\ Failure(h) =>
            /\ Status(h) \in {400, 413, 500}
            /\ Status(h) = 413 <=> Oversized(h)
            /\ Returned(req[h].out) /\ req[h].calls = << >> /\ ~Oversized(h)
                  => Status(h) = 400
            /\ Raised(req[h].out) => Status(h) = 500
            /\ req[h].calls # << >> /\ req[h].route = "translate" => Status(h) = 500
            /\ req[h].calls # << >> /\ req[h].pc = "cleanup"
                  => Status(h) = IF BlankDocument(h) THEN 400 ELSE 500

\* An uploaded document with only white space, answered 400 after extraction
C13_Witness ==
    \E h \in Handlers :
        /\ req[h].pc = "cleanup"
        /\ BlankDocument(h)
        /\ req[h].calls = <<Call("extract_text", None)>>
        /\ req[h].out = Ret(ErrorResponse(400, <<"No text content found in document">>))

---------------------------------------------------------------------------
(* The document processor *)

ExtractTextDone == call.fn = "extract_text" /\ pc = "done"
PdfDone == call.fn = "extract_text_from_pdf" /\ pc = "done"
ResolvedType == ResolveType(call.file_path, call.file_type)
ParserOf(type) == "extract_text_from_" \o type

\* C14: on an existing file, extract_text takes the type from the hint when
\* one is given and from the extension otherwise; it calls a parser, the
\* one of that type, exactly when the type is pdf, docx or txt; for any
\* other type it calls no parser and returns (does not raise) a failure
\* whose message lists the supported types.
C14_DispatchOnSupportedTypes ==
    ExtractTextDone /\ call.file # NoFile =>
        /\ (call.file_type \notin {NoneS, ""} => ResolvedType = call.file_type)
        /\ Returned(outcome)
        /\ IF ResolvedType \in {"pdf", "docx", "txt"}
           THEN trace = <<ParserOf(ResolvedType)>>
           ELSE /\ trace = << >>
                /\ ~outcome.value.success
                /\ outcome.value.error =
                       <<"Unsupported file type: ", ResolvedType,
                         ". Supported: pdf, docx, txt">>

\* C15: extract_text on a path where no file exists calls no parser and
\* returns the failure 'File not found: <path>', whatever the type hint and
\* the extension of the path are.
C15_NotFoundBeforeParse ==
    ExtractTextDone /\ call.file = NoFile =>
        /\ trace = << >>
        /\ outcome = Ret([success |-> FALSE, text |-> None,
                          error |-> <<"File not found: ">> \o call.file_path])

\* A missing b.PDF asked for with the hint "pdf"
C15_Witness ==
    /\ ExtractTextDone
    /\ call.file = NoFile
    /\ call.file_path = <<"b", ".", "PDF">>
    /\ call.file_type = "pdf"
    /\ ~outcome.value.success

\* The pages of the document that have text, and the i-th of them
PagesWithText == {k \in 1..Len(call.pdf.pages) : call.pdf.pages[k] # ""}
TextPage(i) ==
    CHOOSE k \in PagesWithText : Cardinality({j \in PagesWithText : j < k}) = i - 1
Label(k) == "--- Page " \o ToString(k) \o " ---\n"

\* One labelled block per page with text, in page order, a blank line
\* between blocks, nothing for a page without text
PdfLabelsInOrder ==
    LET text == outcome.value.text
        m == Cardinality(PagesWithText)
    IN  /\ Len(text) = IF m = 0 THEN 0 ELSE 3 * m - 1
        /\ \A i \in 1..m :
              /\ text[3 * i - 2] = Label(TextPage(i))
              /\ text[3 * i - 1] = call.pdf.pages[TextPage(i)]
              /\ i < m => text[3 * i] = "\n\n"

\* C16: for a PDF of N pages that opens, extract_text_from_pdf emits one
\* '--- Page k ---' label per page with text, numbered as in the document,
\* in increasing order and separated by blank lines, nothing for pages
\* without text; and the page count it records is N.
C16_PdfPagesAndCount ==
    PdfDone /\ outcome.value.success =>
        /\ PdfLabelsInOrder
        /\ outcome.value.page_count = Len(call.pdf.pages)

---------------------------------------------------------------------------
(* summarize_text *)

SummarizeDone == call.fn = "summarize_text" /\ pc = "done"
ConcisePrefix ==
    "Provide a brief, concise summary of the following text in 2-3 sentences:\n\n"
\* The style whose instruction line is used
StyleUsed ==
    IF call.style \in {"concise", "detailed", "bullet_points"} THEN call.style
    ELSE "concise"
\* generate_ai_response on the prompt of style `style` and the summarizer's
\* system message, under the same configuration and provider behaviour
Delegated(style) ==
    GenerateAiResponse(Prompt(StylePrompt(style) \o "\n\n", call.text),
                       "You are an expert summarizer. Create clear and accurate summaries.",
                       NoneS, NoneS, env, call.reply)

\* C17: summarize_text with a style other than concise, detailed and
\* bullet_points sends the prompt of style concise (that instruction line,
\* a blank line, the text) and is no error of its own; for every style the
\* system message is the fixed summarizer instruction, and the result and
\* the request are those of generate_ai_response on that prompt.
C17_UnknownStyleIsConcise ==
    SummarizeDone =>
        /\ outcome = Delegated(StyleUsed).out
        /\ wire = Delegated(StyleUsed).wire
        /\ StyleUsed = "concise" /\ wire # << >>
              => wire[1].messages[2].content = Prompt(ConcisePrefix, call.text)
        /\ StyleUsed # "concise" /\ wire # << >>
              => wire[1].messages[2].content # Prompt(ConcisePrefix, call.text)

\* Style "haiku": the concise prompt is sent and a summary comes back
C17_Witness ==
    /\ SummarizeDone
    /\ call.style = "haiku"
    /\ wire # << >>
    /\ wire[1].messages[2].content = Prompt(ConcisePrefix, call.text)
    /\ Returned(outcome) /\ outcome.value.success

---------------------------------------------------------------------------
(* The pipeline's boundary, and the order of the two stages in the handlers *)

\* C18: process_and_translate returns a result with a boolean success flag
\* and never raises, whatever the two stages report, a success with a null
\* text included.
C18_PipelineNeverRaises ==
    IsPipeline /\ pc = "done" =>
        /\ Returned(outcome)
        /\ outcome.value.success \in BOOLEAN

\* Whether the request asks for a summary before the translation
Requested(h) ==
    IF req[h].route = "translate" THEN Get(req[h].form, "summarize", FALSE)
    ELSE req[h].form.summarize

\* C19: in /translate and /upload, summarize_text is invoked only when
\* summarization is requested; translate_text is then invoked only right
\* after a summarize_text that returned success, with that summary as its
\* text; and when summarize_text fails, nothing is invoked after it and the
\* response has status 500.
C19_SummarizeThenTranslate ==
    \A h \in Handlers :
        Answered(h) /\ req[h].route \in {"translate", "upload"} =>
            \A i \in 1..Len(req[h].calls) :
                LET c == req[h].calls[i]
                IN  /\ c.fn = "summarize_text" => Requested(h)
                    /\ c.fn = "translate_text" /\ Requested(h) =>
                          /\ i > 1
                          /\ req[h].calls[i - 1].fn = "summarize_text"
                          /\ req[h].calls[i - 1].out.value.success
                          /\ c.text = req[h].calls[i - 1].out.value.response
                    /\ c.fn = "summarize_text" /\ ~c.out.value.success =>
                          /\ i = Len(req[h].calls)
                          /\ Returned(req[h].out)
                          /\ req[h].out.value.status = 500

\* A /translate request with summarize: the summary, not "Hello", is
\* translated
C19_Witness ==
    \E h \in Handlers :
        /\ IsTranslateRequest(h)
        /\ Requested(h)
        /\ Len(req[h].calls) = 2
        /\ req[h].calls[1].text = Str("Hello", 5)
        /\ req[h].calls[2] = Call("translate_text", Summary)
        /\ Returned(req[h].out) /\ req[h].out.value.status = 200

====
